---- MODULE Spec2Model ----
(***************************************************************************)
(* Model of the repository analysis pipeline of gitverse-backend:          *)
(* RepositoryService (createRepository, analyzeRepository,                 *)
(* deleteRepository), the POST /:id/analyze route, and the parts of        *)
(* GitService the pipeline calls.  Every await of the TypeScript code is   *)
(* one atomic step; percentages are integers counted in hundredths.        *)
(* Spec is the pipeline under concurrent calls; EvalSpec evaluates single  *)
(* functions of GitService and of the pipeline on the text git writes.     *)
(***************************************************************************)
EXTENDS Integers, Sequences, FiniteSets, Bags, TLC

\* ---------------------------------------------------------------- bounds
\* Number of createRepository calls made in one behaviour.
MaxCalls == 2
\* Number of analyzeRepository executions started in one behaviour.
MaxRuns == 2
\* Number of Repository rows ever created (ids are never reused).
MaxRepos == 2
\* Number of pushes to the remote in one behaviour.
MaxPushes == 1
\* Number of transient persistence failures injected in one behaviour.
MaxFaults == 1

Urls == {"u1"}
Users == {1}
Calls == 1..MaxCalls
Runs == 1..MaxRuns
Ids == 1..MaxRepos

\* ------------------------------------------------------------- sequences
RECURSIVE SumSeq(_)
SumSeq(s) == IF s = <<>> THEN 0 ELSE Head(s) + SumSeq(Tail(s))

Range(s) == {s[i] : i \in DOMAIN s}

\* ------------------------------------------------------------------ text
\* A text is a sequence of characters; a word that no function looks into
\* ("fix", a 40-digit hash) is one element.
Whitespace == {" ", "\n", "\t"}

\* String.prototype.split(d): the pieces between the occurrences of d.
RECURSIVE SplitOn(_, _)
SplitOn(s, d) ==
  IF \A i \in DOMAIN s : s[i] # d THEN << s >>
  ELSE LET i == CHOOSE j \in DOMAIN s : s[j] = d /\ \A k \in 1..(j - 1) : s[k] # d
       IN  << SubSeq(s, 1, i - 1) >> \o SplitOn(SubSeq(s, i + 1, Len(s)), d)

\* Array.prototype.join(d)
RECURSIVE Join(_, _)
Join(parts, d) ==
  IF parts = << >> THEN << >>
  ELSE IF Len(parts) = 1 THEN parts[1]
  ELSE parts[1] \o << d >> \o Join(Tail(parts), d)

RECURSIVE TrimStart(_)
TrimStart(s) == IF s # << >> /\ Head(s) \in Whitespace THEN TrimStart(Tail(s)) ELSE s

RECURSIVE TrimEnd(_)
TrimEnd(s) ==
  IF s # << >> /\ s[Len(s)] \in Whitespace THEN TrimEnd(SubSeq(s, 1, Len(s) - 1)) ELSE s

\* String.prototype.trim()
Trim(s) == TrimEnd(TrimStart(s))

\* lines.filter(Boolean): the empty string is dropped.
NonEmpty(lines) == SelectSeq(lines, LAMBDA l : l # << >>)

DigitChars == << "0", "1", "2", "3", "4", "5", "6", "7", "8", "9" >>

IsDigit(ch) == \E d \in DOMAIN DigitChars : DigitChars[d] = ch

DigitValue(ch) == (CHOOSE d \in DOMAIN DigitChars : DigitChars[d] = ch) - 1

\* parseInt(s): the number its leading digits write, NaN when there is none.
RECURSIVE ParseDigits(_, _)
ParseDigits(acc, s) ==
  IF s = << >> \/ ~IsDigit(Head(s)) THEN acc
  ELSE ParseDigits(10 * acc + DigitValue(Head(s)), Tail(s))

ParseInt(s) == IF s = << >> \/ ~IsDigit(Head(s)) THEN "NaN" ELSE ParseDigits(0, s)

\* The decimal digits git writes for a number.
RECURSIVE Digits(_)
Digits(n) ==
  IF n < 10 THEN << DigitChars[n + 1] >>
  ELSE Digits(n \div 10) \o << DigitChars[(n % 10) + 1] >>

\* ------------------------------------------------- the remote's content
\* The remote at version v holds commits v, ..., 1 (newest first).  Commit 1
\* adds two files, commit 2 touches no file (a merge), later commits modify
\* one file.  Authors alternate.
CommitAt(k) ==
  [hash |-> k,
   authorEmail |-> IF k % 2 = 1 THEN "a@x" ELSE "b@x",
   committedAt |-> k,
   numstat |-> CASE k = 1 -> << [path |-> "a.ts", add |-> 10, del |-> 0],
                                [path |-> "b.py", add |-> 5, del |-> 0] >>
                 [] k = 2 -> << >>
                 [] OTHER -> << [path |-> "a.ts", add |-> 2, del |-> 3] >>]

History(v) == [i \in 1..v |-> CommitAt(v + 1 - i)]

\* refs/heads of the clone and the remote HEAD: main is the default at odd
\* versions, dev at even ones.
RemoteBranches(v) ==
  << [name |-> "main", isDefault |-> (v % 2 = 1)],
     [name |-> "dev", isDefault |-> (v % 2 = 0)] >>

\* git ls-files with the size, extension and line count of each file.
RemoteFiles(v) ==
  << [path |-> "a.ts", extension |-> ".ts", size |-> v, lines |-> v],
     [path |-> "b.py", extension |-> ".py", size |-> 1, lines |-> 1] >>
  \o (IF v % 2 = 1
        THEN << [path |-> "c.go", extension |-> ".go", size |-> 1, lines |-> 1] >>
        ELSE << >>)
  \o << [path |-> "d.json", extension |-> ".json", size |-> 5, lines |-> 2] >>
  \o (IF v >= 2
        THEN << [path |-> "e.mjs", extension |-> ".mjs", size |-> 4, lines |-> 3] >>
        ELSE << >>)

RemoteSize(v) == SumSeq([i \in DOMAIN RemoteFiles(v) |-> RemoteFiles(v)[i].size])

\* ------------------------------------------------------------ GitService
GetBranches(v) == RemoteBranches(v)

\* branches.find((b) => b.isDefault)?.name || 'main'
DefaultBranchOf(branches) ==
  LET d == SelectSeq(branches, LAMBDA b : b.isDefault)
  IN  IF d = << >> THEN "main" ELSE d[1].name

\* Mutant: deletions alone do not make a file deleted.
ChangeType_NeverDeleted(additions, deletions) ==
  IF additions > 0 /\ deletions = 0 THEN "added" ELSE "modified"

ChangeType(additions, deletions) ==
  IF additions > 0 /\ deletions = 0 THEN "added"
  ELSE IF additions = 0 /\ deletions > 0 THEN "deleted"
  ELSE "modified"

GetFileChanges(c) ==
  [i \in DOMAIN c.numstat |->
     [path |-> c.numstat[i].path,
      additions |-> c.numstat[i].add,
      deletions |-> c.numstat[i].del,
      changeType |-> ChangeType(c.numstat[i].add, c.numstat[i].del)]]

\* git log -n limit of a branch of the clone; every branch of the model's
\* remote carries the whole history.
GetCommits(v, limit) ==
  LET h == History(v)
  IN  [i \in 1..(IF Len(h) < limit THEN Len(h) ELSE limit) |->
         [hash |-> h[i].hash,
          authorEmail |-> h[i].authorEmail,
          committedAt |-> h[i].committedAt,
          fileChanges |-> GetFileChanges(h[i])]]

\* ---- the same two functions on the text git writes
\* A 40-digit hash is one element of the text.
Hashes == {"H1", "H2"}

\* `git log --format="%H|%h|%an|%ae|%aI|%s|%b" --shortstat`: the fields of a
\* record joined by '|', then the stat line of a commit that touches files.
\* A record of shape "noEmailField" has no author-email field at all, one of
\* shape "emptyEmail" an empty one.
FormatRecord(c) ==
  Join(<< << c.hash >>, << "short" >>, << "name" >> >>
         \o (CASE c.shape = "noEmailField" -> << >>
               [] c.shape = "emptyEmail" -> << << >> >>
               [] OTHER -> << << "a@x" >> >>)
         \o << << "date" >>, c.subject, c.body >>, "|")
    \o << "\n" >>
    \o (IF c.stat THEN << "\n", " ", "1 file changed", "\n" >> ELSE << >>)
    \o << "\n" >>

RECURSIVE FormatLog(_)
FormatLog(log) == IF log = << >> THEN << >> ELSE FormatRecord(Head(log)) \o FormatLog(Tail(log))

\* stdout.matchAll(/^([a-f0-9]{40}\|)/gm): the places where a line starts
\* with a hash and a '|'.
MatchStarts(stdout) ==
  SelectSeq([i \in DOMAIN stdout |-> i],
            LAMBDA i : /\ stdout[i] \in Hashes
                       /\ (i = 1 \/ stdout[i - 1] = "\n")
                       /\ i < Len(stdout) /\ stdout[i + 1] = "|")

\* One turn of getCommits' loop over the blocks: no commit (continue) or one
\* (push).  description is "" for undefined.  shortHash and the numbers of
\* the stat line, which no step of the pipeline reads, are left out, and
\* fileChanges is added by GetCommits above.
ParseBlock(block) ==
  LET lines == NonEmpty(SplitOn(block, "\n"))
      parts == SplitOn(lines[1], "|")
  IN  IF lines = << >> THEN << >>
      ELSE IF Len(parts) < 6 THEN << >>
      ELSE IF \E k \in {1, 3, 4, 5, 6} : parts[k] = << >> THEN << >>
      ELSE << [hash |-> Trim(parts[1]),
               message |-> Trim(parts[6]),
               description |-> Trim(Join(SubSeq(parts, 7, Len(parts)), "|")),
               authorName |-> Trim(parts[3]),
               authorEmail |-> Trim(parts[4]),
               committedAt |-> Trim(parts[5])] >>

RECURSIVE ParseBlocks(_, _, _)
ParseBlocks(stdout, matches, i) ==
  IF i > Len(matches) THEN << >>
  ELSE LET startIndex == matches[i]
           endIndex == IF i < Len(matches) THEN matches[i + 1] ELSE Len(stdout) + 1
       IN  ParseBlock(Trim(SubSeq(stdout, startIndex, endIndex - 1)))
             \o ParseBlocks(stdout, matches, i + 1)

\* getCommits on the output of git log.
ParseLog(stdout) == ParseBlocks(stdout, MatchStarts(stdout), 1)

\* `git show --numstat --format=""`: additions, deletions and path of each
\* file separated by tabs, '-' for the numbers of a binary file.
FormatNumstatLine(l) ==
  (IF l.binary THEN << "-", "\t", "-" >> ELSE Digits(l.add) \o << "\t" >> \o Digits(l.del))
    \o << "\t", l.path, "\n" >>

RECURSIVE FormatNumstat(_)
FormatNumstat(ls) ==
  IF ls = << >> THEN << >> ELSE FormatNumstatLine(Head(ls)) \o FormatNumstat(Tail(ls))

\* getFileChanges' loop body on one line of the output.
ParseNumstatLine(line) ==
  LET cols == SplitOn(line, "\t")
      addStr == cols[1]
      delStr == cols[2]
      additions == IF addStr = << "-" >> THEN 0 ELSE ParseInt(addStr)
      deletions == IF delStr = << "-" >> THEN 0 ELSE ParseInt(delStr)
  IN  [path |-> cols[3], additions |-> additions, deletions |-> deletions,
       changeType |-> ChangeType(additions, deletions)]

\* getFileChanges on the output of git show.
ParseNumstat(stdout) ==
  LET lines == NonEmpty(SplitOn(Trim(stdout), "\n"))
  IN  [i \in DOMAIN lines |-> ParseNumstatLine(lines[i])]

\* getFileChanges on the outcome of git show, which fails or writes the
\* lines of the commit: catch (error) { return [] }.
FileChangesOfShow(show) ==
  IF show.failed THEN << >> ELSE ParseNumstat(FormatNumstat(show.lines))

\* Mutant: a commit whose lookup failed is left out.
WithFileChanges_DropsFailed(parsed, shows) ==
  LET kept == SelectSeq(parsed, LAMBDA c : ~shows[c.hash[1]].failed)
  IN  [k \in DOMAIN kept |->
         [hash |-> kept[k].hash, message |-> kept[k].message,
          fileChanges |-> FileChangesOfShow(shows[kept[k].hash[1]])]]

\* const fileChanges = await this.getFileChanges(hash); commits.push(...)
\* for every commit parsed: shows is the outcome of git show by hash.
WithFileChanges(parsed, shows) ==
  [k \in DOMAIN parsed |->
     [hash |-> parsed[k].hash, message |-> parsed[k].message,
      fileChanges |-> FileChangesOfShow(shows[parsed[k].hash[1]])]]

\* One pass over the lines of `git log --format=... --numstat`: an author
\* line sets currentAuthor, every numstat line after it updates the
\* contributor of currentAuthor.email.
ContribStatLine(m, c, st) ==
  IF \E i \in DOMAIN m : m[i].email = c.authorEmail
    THEN [i \in DOMAIN m |->
            IF m[i].email = c.authorEmail
              THEN [m[i] EXCEPT !.commits = @ + 1,
                                !.additions = @ + st.add,
                                !.deletions = @ + st.del,
                                !.lastCommit =
                                   IF c.committedAt > @ THEN c.committedAt ELSE @,
                                !.firstCommit =
                                   IF c.committedAt < @ THEN c.committedAt ELSE @]
              ELSE m[i]]
    ELSE Append(m, [email |-> c.authorEmail, commits |-> 1,
                    additions |-> st.add, deletions |-> st.del,
                    firstCommit |-> c.committedAt, lastCommit |-> c.committedAt])

RECURSIVE ContribStatLines(_, _, _)
ContribStatLines(m, c, sts) ==
  IF sts = << >> THEN m
  ELSE ContribStatLines(ContribStatLine(m, c, Head(sts)), c, Tail(sts))

RECURSIVE ContribLog(_, _)
ContribLog(m, log) ==
  IF log = << >> THEN m
  ELSE ContribLog(ContribStatLines(m, Head(log), Head(log).numstat), Tail(log))

GetContributors(v) == ContribLog(<< >>, History(v))

\* String.prototype.toLowerCase on the extensions of the model.
ToLowerCase(extension) ==
  CASE extension = ".TS" -> ".ts"
    [] extension = ".PY" -> ".py"
    [] OTHER -> extension

\* detectLanguageFromExtension's table (getFileTree); "" stands for null.
DetectLanguageFromExtension(extension) ==
  LET ext == ToLowerCase(extension) IN
  CASE ext \in {".js", ".jsx", ".mjs", ".cjs"} -> "JavaScript"
    [] ext \in {".ts", ".tsx"} -> "TypeScript"
    [] ext \in {".py", ".pyw", ".pyx"} -> "Python"
    [] ext = ".java" -> "Java"
    [] ext \in {".c", ".h"} -> "C"
    [] ext \in {".cpp", ".cc", ".cxx", ".hpp", ".hxx"} -> "C++"
    [] ext = ".cs" -> "C#"
    [] ext = ".go" -> "Go"
    [] ext = ".rs" -> "Rust"
    [] ext = ".rb" -> "Ruby"
    [] ext = ".php" -> "PHP"
    [] ext = ".swift" -> "Swift"
    [] ext \in {".kt", ".kts"} -> "Kotlin"
    [] ext \in {".scala", ".sc"} -> "Scala"
    [] ext = ".r" -> "R"
    [] ext \in {".sh", ".bash", ".zsh"} -> "Shell"
    [] ext \in {".html", ".htm"} -> "HTML"
    [] ext = ".css" -> "CSS"
    [] ext = ".scss" -> "SCSS"
    [] ext = ".sass" -> "Sass"
    [] ext = ".less" -> "Less"
    [] ext = ".json" -> "JSON"
    [] ext = ".xml" -> "XML"
    [] ext \in {".yaml", ".yml"} -> "YAML"
    [] ext = ".toml" -> "TOML"
    [] ext = ".ini" -> "INI"
    [] ext \in {".md", ".markdown"} -> "Markdown"
    [] ext = ".rst" -> "reStructuredText"
    [] ext = ".sql" -> "SQL"
    [] ext = ".vue" -> "Vue"
    [] ext = ".svelte" -> "Svelte"
    [] OTHER -> ""

\* shouldIgnoreFile's patterns over the paths of the model: a path under
\* node_modules/ and a lock file match, no other path does.
ShouldIgnoreFile(filePath) == filePath \in {"node_modules/m.ts", "yarn.lock"}

\* getFileTree over the listing git ls-files gives: ignored paths are
\* skipped, "" stands for the null extension and the null language.
FileTree(listing) ==
  LET kept == SelectSeq(listing, LAMBDA f : ~ShouldIgnoreFile(f.path))
  IN  [i \in DOMAIN kept |->
         [path |-> kept[i].path,
          size |-> kept[i].size,
          extension |-> kept[i].extension,
          lines |-> kept[i].lines,
          language |-> DetectLanguageFromExtension(kept[i].extension)]]

GetFileTree(v) == FileTree(RemoteFiles(v))

\* detectLanguages' own table; "" stands for undefined.
ExtensionToLanguage(extension) ==
  CASE extension \in {".ts", ".tsx"} -> "TypeScript"
    [] extension \in {".js", ".jsx"} -> "JavaScript"
    [] extension = ".py" -> "Python"
    [] extension = ".java" -> "Java"
    [] extension = ".go" -> "Go"
    [] extension = ".rs" -> "Rust"
    [] extension = ".cpp" -> "C++"
    [] extension = ".c" -> "C"
    [] extension = ".cs" -> "C#"
    [] extension = ".rb" -> "Ruby"
    [] extension = ".php" -> "PHP"
    [] extension = ".swift" -> "Swift"
    [] extension = ".kt" -> "Kotlin"
    [] extension = ".css" -> "CSS"
    [] extension = ".scss" -> "SCSS"
    [] extension = ".html" -> "HTML"
    [] extension = ".json" -> "JSON"
    [] extension = ".md" -> "Markdown"
    [] extension \in {".yml", ".yaml"} -> "YAML"
    [] OTHER -> ""

\* languageStats: a Map in insertion order, here a sequence of entries.
LangAdd(m, f) ==
  LET language == ExtensionToLanguage(f.extension)
  IN  IF language = "" THEN m
      ELSE IF \E i \in DOMAIN m : m[i].name = language
        THEN [i \in DOMAIN m |->
                IF m[i].name = language
                  THEN [m[i] EXCEPT !.bytes = @ + f.size, !.lines = @ + f.lines]
                  ELSE m[i]]
        ELSE Append(m, [name |-> language, bytes |-> f.size, lines |-> f.lines])

RECURSIVE LangStats(_, _)
LangStats(m, files) ==
  IF files = << >> THEN m ELSE LangStats(LangAdd(m, Head(files)), Tail(files))

\* Array.prototype.sort is stable: x goes behind every entry that is not
\* smaller.  The percentage is bytes / totalBytes * 100 with one totalBytes,
\* so the order by percentage is the order by bytes.
RECURSIVE InsertDesc(_, _)
InsertDesc(s, x) ==
  IF s = << >> THEN << x >>
  ELSE IF Head(s).bytes >= x.bytes THEN << Head(s) >> \o InsertDesc(Tail(s), x)
  ELSE << x >> \o s

RECURSIVE SortDesc(_, _)
SortDesc(acc, s) ==
  IF s = << >> THEN acc ELSE SortDesc(InsertDesc(acc, Head(s)), Tail(s))

\* detectLanguages over the files getFileTree returns.
LanguagesOf(files) == SortDesc(<< >>, LangStats(<< >>, files))

DetectLanguages(v) == LanguagesOf(GetFileTree(v))

\* ------------------------------------------ analyzeRepository's arithmetic
IgnoredLanguages == {"JSON", "YAML", "Markdown", "TOML", "CSV"}

FilteredLanguages(languages) ==
  SelectSeq(languages, LAMBDA l : l.name \notin IgnoredLanguages)

TotalBytes(filtered) == SumSeq([i \in DOMAIN filtered |-> filtered[i].bytes])

\* Math.round(bytes / totalBytes * 100 * 100) / 100, in hundredths: the
\* nearest integer to 10000 * bytes / totalBytes, a half rounded up.
RoundedPercentages(filtered) ==
  LET totalBytes == TotalBytes(filtered)
  IN  [i \in DOMAIN filtered |->
         IF totalBytes > 0
           THEN (20000 * filtered[i].bytes + totalBytes) \div (2 * totalBytes)
           ELSE 0]

MaxOf(s) == CHOOSE m \in Range(s) : \A x \in Range(s) : x <= m

\* indexOf: the first index holding the value.
IndexOf(s, x) == CHOOSE i \in DOMAIN s : s[i] = x /\ \A j \in 1..(i - 1) : s[j] # x

\* Mutant: the residual goes to the last entry.
AdjustedPercentages_Last(rounded) ==
  LET sum == SumSeq(rounded)
  IN  IF sum > 0 /\ sum # 10000
        THEN [rounded EXCEPT ![Len(rounded)] = @ + (10000 - sum)]
        ELSE rounded

AdjustedPercentages(rounded) ==
  LET sum == SumSeq(rounded)
  IN  IF sum > 0 /\ sum # 10000
        THEN LET maxIndex == IndexOf(rounded, MaxOf(rounded))
             IN  [rounded EXCEPT ![maxIndex] = @ + (10000 - sum)]
        ELSE rounded

LanguageRows(v, id) ==
  LET filtered == FilteredLanguages(DetectLanguages(v))
      percentages == AdjustedPercentages(RoundedPercentages(filtered))
  IN  [i \in DOMAIN filtered |->
         [repositoryId |-> id,
          name |-> filtered[i].name,
          percentage |-> percentages[i],
          bytes |-> filtered[i].bytes,
          lines |-> filtered[i].lines]]

\* percentage = commits / totalContributions * 100 is stored unrounded: the
\* row keeps the fraction.
ContributorRows(v, id) ==
  LET contributors == GetContributors(v)
      totalContributions == SumSeq([i \in DOMAIN contributors |-> contributors[i].commits])
  IN  [i \in DOMAIN contributors |->
         [repositoryId |-> id,
          email |-> contributors[i].email,
          commits |-> contributors[i].commits,
          additions |-> contributors[i].additions,
          deletions |-> contributors[i].deletions,
          percentage |-> << contributors[i].commits * 100, totalContributions >>,
          firstCommit |-> contributors[i].firstCommit,
          lastCommit |-> contributors[i].lastCommit]]

\* Mutant: every branch row goes to the first repository.
BranchRows_FirstRepository(v, id) ==
  [i \in DOMAIN GetBranches(v) |->
     [repositoryId |-> 1,
      name |-> GetBranches(v)[i].name,
      isDefault |-> GetBranches(v)[i].isDefault]]

BranchRows(v, id) ==
  [i \in DOMAIN GetBranches(v) |->
     [repositoryId |-> id,
      name |-> GetBranches(v)[i].name,
      isDefault |-> GetBranches(v)[i].isDefault]]

CommitRow(c, id) ==
  [repositoryId |-> id, hash |-> c.hash,
   authorEmail |-> c.authorEmail, committedAt |-> c.committedAt]

FileChangeRows(c, id) ==
  [i \in DOMAIN c.fileChanges |->
     [repositoryId |-> id, hash |-> c.hash,
      path |-> c.fileChanges[i].path,
      additions |-> c.fileChanges[i].additions,
      deletions |-> c.fileChanges[i].deletions,
      changeType |-> c.fileChanges[i].changeType]]

FileRow(f, id) ==
  [repositoryId |-> id, path |-> f.path, size |-> f.size,
   lines |-> f.lines, language |-> f.language]

\* ----------------------------------------------- the persistence tables
\* A table is a bag of rows: two rows that differ only in their generated
\* id are two copies of one element.
RowsOf(table, id) ==
  [x \in {y \in BagToSet(table) : y.repositoryId = id} |-> table[x]]

RowsNotOf(table, id) ==
  [x \in {y \in BagToSet(table) : y.repositoryId # id} |-> table[x]]

CountOf(table, id) == BagCardinality(RowsOf(table, id))

Create(table, row) == table (+) SetToBag({row})

RECURSIVE CreateAll(_, _)
CreateAll(table, rows) ==
  IF rows = << >> THEN table ELSE CreateAll(Create(table, Head(rows)), Tail(rows))

\* The natural keys of section 3 of the specification: the unique
\* constraints of the schema, which createMany's skipDuplicates relies on.
BranchKey == {"repositoryId", "name"}
CommitKey == {"repositoryId", "hash"}
FileKey == {"repositoryId", "path"}

\* Mutant: no unique constraint stands behind the keys.
KeyTaken_Never(table, key, row) == FALSE

KeyTaken(table, key, row) ==
  \E x \in BagToSet(table) : \A f \in key : x[f] = row[f]

\* createMany({ data, skipDuplicates: true }): a row is inserted unless a
\* row of the table or an earlier row of data holds its key.
CreateManySkipDuplicates(table, key, rows) ==
  table (+) SetToBag(
    {rows[i] : i \in {j \in DOMAIN rows :
                        /\ ~KeyTaken(table, key, rows[j])
                        /\ \A k \in 1..(j - 1) : \E f \in key : rows[k][f] # rows[j][f]}})

\* ------------------------------------------------------------------ state
VARIABLES
  repo,         \* Repository rows by id
  nextId,       \* the next generated Repository id
  branch, commit, fileChange, file, contributor, language,   \* the tables
  dirs,         \* the scratch directories on disk, named by their run
  version,      \* the version each remote is at
  run,          \* the analyzeRepository executions
  call,         \* the createRepository calls
  faults,       \* failures the environment may still inject
  snap,         \* history: the row counts at the last completed run
  eval          \* one evaluation of a function of GitService or of a step

tables == << branch, commit, fileChange, file, contributor, language >>
pipeline == << repo, nextId, tables, dirs, version, run, call, faults, snap >>
vars == << pipeline, eval >>

NoRow ==
  [exists |-> FALSE, url |-> "", userId |-> 0, status |-> "",
   defaultBranch |-> "", size |-> 0, analyzed |-> FALSE]

IdleRun ==
  [pc |-> "idle", id |-> 0, origin |-> "", url |-> "", priorFailed |-> FALSE, git |-> FALSE,
   ver |-> 0,
   todo |-> << >>, newFiles |-> << >>, err |-> "None", stepErr |-> "None",
   handled |-> FALSE, wroteFailed |-> FALSE, rmFailed |-> FALSE]

IdleCall ==
  [pc |-> "idle", url |-> "", userId |-> 0, ret |-> 0]

NoSnap ==
  [valid |-> FALSE, ver |-> 0, branches |-> 0, commits |-> 0, files |-> 0,
   complete |-> FALSE, again |-> FALSE]

\* No function is under evaluation.
NoEval == [fn |-> "none", done |-> FALSE, in |-> << >>, out |-> << >>]

\* The service as constructed: no row, no directory, no call.
Constructed ==
  /\ repo = [i \in Ids |-> NoRow]
  /\ nextId = 1
  /\ branch = EmptyBag /\ commit = EmptyBag /\ fileChange = EmptyBag
  /\ file = EmptyBag /\ contributor = EmptyBag /\ language = EmptyBag
  /\ dirs = {}
  /\ version = [u \in Urls |-> 1]
  /\ run = [r \in Runs |-> IdleRun]
  /\ call = [c \in Calls |-> IdleCall]
  /\ faults = MaxFaults
  /\ snap = [i \in Ids |-> NoSnap]

Init == Constructed /\ eval = NoEval

\* The outcomes of a step that the environment can make fail: a failure
\* uses up one of the failures left.
Outcomes(failures) == {"ok"} \cup (IF faults > 0 THEN failures ELSE {})

Spend(o) == faults' = (IF o = "ok" THEN faults ELSE faults - 1)

\* ------------------------------------------------ starting an analysis
\* this.analyzeRepository(id): the call runs up to its first await, the
\* findUnique, which takes effect in a later step.
FreeRun(r) == run[r].pc = "idle" /\ \A s \in 1..(r - 1) : run[s].pc # "idle"

Started(id, origin) == [IdleRun EXCEPT !.pc = "load", !.id = id, !.origin = origin]

\* ------------------------------------------------------ createRepository
\* Mutant: a row left pending is not retried.
RetryStatus_FailedOnly(status) == status = "failed"

\* if (existingRepository.status === 'failed' || ... === 'pending')
RetryStatus(status) == status \in {"failed", "pending"}

\* findFirst({ where: { url, userId } }) and, when a row is found, the rest
\* of the call: the retry and the return.
CreateLookup(c) ==
  /\ call[c].pc = "idle"
  /\ \A d \in 1..(c - 1) : call[d].pc # "idle"
  /\ \E url \in Urls, userId \in Users :
       LET matches == {i \in Ids : repo[i].exists /\ repo[i].url = url
                                     /\ repo[i].userId = userId}
       IN  IF matches = {}
             THEN /\ call' = [call EXCEPT ![c] =
                               [@ EXCEPT !.pc = "create", !.url = url, !.userId = userId]]
                  /\ run' = run
             ELSE \E i \in matches :
                    IF RetryStatus(repo[i].status)
                      THEN \E r \in Runs :
                             /\ FreeRun(r)
                             /\ run' = [run EXCEPT ![r] = Started(i, "create")]
                             /\ call' = [call EXCEPT ![c] =
                                  [@ EXCEPT !.pc = "done", !.url = url,
                                            !.userId = userId, !.ret = i]]
                      ELSE /\ run' = run
                           /\ call' = [call EXCEPT ![c] =
                                [@ EXCEPT !.pc = "done", !.url = url,
                                          !.userId = userId, !.ret = i]]
  /\ UNCHANGED << eval, repo, nextId, tables, dirs, version, faults, snap >>

\* prisma.repository.create({ data: { ..., status: 'pending' } })
CreateInsert(c) ==
  /\ call[c].pc = "create"
  /\ nextId <= MaxRepos
  /\ repo' = [repo EXCEPT ![nextId] =
       [NoRow EXCEPT !.exists = TRUE, !.url = call[c].url,
                     !.userId = call[c].userId, !.status = "pending"]]
  /\ nextId' = nextId + 1
  /\ call' = [call EXCEPT ![c] = [@ EXCEPT !.pc = "created", !.ret = nextId]]
  /\ UNCHANGED << eval, tables, dirs, version, run, faults, snap >>

\* this.analyzeRepository(repository.id).catch(...); return repository
CreateStart(c) ==
  /\ call[c].pc = "created"
  /\ \E r \in Runs :
       /\ FreeRun(r)
       /\ run' = [run EXCEPT ![r] = Started(call[c].ret, "create")]
  /\ call' = [call EXCEPT ![c] =
       [@ EXCEPT !.pc = "done"]]
  /\ UNCHANGED << eval, repo, nextId, tables, dirs, version, faults, snap >>

\* ------------------------------------------------- POST /:id/analyze
Reanalyze(id) ==
  /\ repo[id].exists
  /\ \E r \in Runs :
       /\ FreeRun(r)
       /\ run' = [run EXCEPT ![r] = Started(id, "route")]
  /\ UNCHANGED << eval, repo, nextId, tables, dirs, version, call, faults, snap >>

\* ------------------------------------------------------ deleteRepository
\* The delete cascades to every table.
DeleteRepository(id) ==
  /\ repo[id].exists
  /\ repo' = [repo EXCEPT ![id] = NoRow]
  /\ branch' = RowsNotOf(branch, id)
  /\ commit' = RowsNotOf(commit, id)
  /\ fileChange' = RowsNotOf(fileChange, id)
  /\ file' = RowsNotOf(file, id)
  /\ contributor' = RowsNotOf(contributor, id)
  /\ language' = RowsNotOf(language, id)
  /\ snap' = [snap EXCEPT ![id] = NoSnap]
  /\ UNCHANGED << eval, nextId, dirs, version, run, call, faults >>

\* ------------------------------------------------------------ the remote
Push(u) ==
  /\ version[u] <= MaxPushes
  /\ version' = [version EXCEPT ![u] = @ + 1]
  /\ UNCHANGED << eval, repo, nextId, tables, dirs, run, call, faults, snap >>

\* ----------------------------------------------------- analyzeRepository
\* A step inside the try block raises e: control goes to the catch block.
Raise(r, e) == run' = [run EXCEPT ![r] = [@ EXCEPT !.pc = "catch", !.err = e, !.stepErr = e]]

Goto(r, pc) == run' = [run EXCEPT ![r] = [@ EXCEPT !.pc = pc]]

\* A run on other content than the last completed run's changed the rows:
\* the recorded counts no longer describe unchanged content.
Touch(id, ver, changed) ==
  snap' = IF changed /\ snap[id].ver # ver THEN [snap EXCEPT ![id] = NoSnap] ELSE snap

\* Mutant: the row read is not checked.
Load_Unchecked(r) ==
  /\ run[r].pc = "load"
  /\ run' = [run EXCEPT ![r] = [@ EXCEPT !.pc = "setAnalyzing"]]
  /\ UNCHANGED << eval, repo, nextId, tables, dirs, version, call, faults, snap >>

\* const repository = await findUnique({ where: { id } }); throws
\* 'Repository not found' outside the try block.  priorFailed records
\* whether the row read had status failed.
Load(r) ==
  /\ run[r].pc = "load"
  /\ run' = [run EXCEPT ![r] =
       IF repo[run[r].id].exists
         THEN [@ EXCEPT !.pc = "setAnalyzing", !.url = repo[run[r].id].url,
                        !.priorFailed = (repo[run[r].id].status = "failed")]
         ELSE [@ EXCEPT !.pc = "thrown", !.err = "NotFound"]]
  /\ UNCHANGED << eval, repo, nextId, tables, dirs, version, call, faults, snap >>

\* update({ data: { status: 'analyzing' } }), still outside the try block:
\* an update of a row that is gone rejects.
SetAnalyzing(r) ==
  /\ run[r].pc = "setAnalyzing"
  /\ IF repo[run[r].id].exists
       THEN /\ repo' = [repo EXCEPT ![run[r].id] = [@ EXCEPT !.status = "analyzing"]]
            /\ Goto(r, "clone")
       ELSE /\ repo' = repo
            /\ run' = [run EXCEPT ![r] =
                 [@ EXCEPT !.pc = "thrown", !.err = "RecordNotFound", !.url = ""]]
  /\ UNCHANGED << eval, nextId, tables, dirs, version, call, faults, snap >>

\* GitService.cloneRepository: mkdir, then git clone; gitService is assigned
\* only when both succeed.  getRepositorySize never raises.
CloneRepository(r) ==
  /\ run[r].pc = "clone"
  /\ \E o \in {"ok", "mkdir", "clone"} :
       /\ dirs' = IF o = "mkdir" THEN dirs ELSE dirs \cup {r}
       /\ IF o = "ok"
            THEN run' = [run EXCEPT ![r] =
                   [@ EXCEPT !.pc = "branches", !.git = TRUE, !.ver = version[run[r].url]]]
            ELSE Raise(r, "Clone")
  /\ UNCHANGED << eval, repo, nextId, tables, version, call, faults, snap >>

\* An insert for a Repository row that is gone violates the foreign key.
PersistFails(r, o) == o = "db" \/ ~repo[run[r].id].exists

\* Mutant: the batch insert skips no duplicate.
BranchCreateMany_NoSkip(rows) == CreateAll(branch, rows)

\* getBranches, then branch.createMany({ ..., skipDuplicates: true })
BranchCreateMany(rows) == CreateManySkipDuplicates(branch, BranchKey, rows)

Branches(r) ==
  /\ run[r].pc = "branches"
  /\ \E o \in Outcomes({"git", "db"}) :
       /\ Spend(o)
       /\ IF o = "git" THEN Raise(r, "Branches") /\ UNCHANGED << branch, snap >>
          ELSE IF PersistFails(r, o) THEN Raise(r, "Db") /\ UNCHANGED << branch, snap >>
          ELSE /\ branch' = BranchCreateMany(BranchRows(run[r].ver, run[r].id))
               /\ Touch(run[r].id, run[r].ver, branch' # branch)
               /\ Goto(r, "commits")
  /\ UNCHANGED << eval, repo, nextId, commit, fileChange, file, contributor, language,
                  dirs, version, call >>

\* const newCommits = commits.filter((commit) => !existingHashes.has(commit.hash))
NewCommits(commits, existing) ==
  SelectSeq(commits, LAMBDA c : \A x \in BagToSet(existing) : x.hash # c.hash)

\* getCommits(defaultBranch, 500), then commit.findMany({ where: { repositoryId } })
CommitLimit == 500

Commits(r) ==
  /\ run[r].pc = "commits"
  /\ \E o \in Outcomes({"git"}) :
       /\ Spend(o)
       /\ IF o = "git"
              \/ DefaultBranchOf(GetBranches(run[r].ver))
                   \notin {b.name : b \in Range(GetBranches(run[r].ver))}
            THEN Raise(r, "Commits")
            ELSE LET new == NewCommits(GetCommits(run[r].ver, CommitLimit),
                                       RowsOf(commit, run[r].id))
                 IN  run' = [run EXCEPT ![r] =
                       [@ EXCEPT !.pc = IF new = << >> THEN "files" ELSE "commitLoop",
                                 !.todo = new]]
  /\ UNCHANGED << eval, repo, nextId, tables, dirs, version, call, snap >>

\* Mutant: a failed commit insert is not caught inside the loop.
CommitLoop_Propagates(r) ==
  /\ run[r].pc = "commitLoop"
  /\ LET c == Head(run[r].todo)
         row == CommitRow(c, run[r].id)
     IN  \E o \in Outcomes({"db", "dbFileChanges"}) :
           /\ Spend(o)
           /\ IF PersistFails(r, o) \/ KeyTaken(commit, CommitKey, row)
                THEN Raise(r, "Db") /\ UNCHANGED << commit, fileChange, snap >>
                ELSE /\ commit' = Create(commit, row)
                     /\ fileChange' =
                          IF o = "dbFileChanges" THEN fileChange
                          ELSE CreateAll(fileChange, FileChangeRows(c, run[r].id))
                     /\ Touch(run[r].id, run[r].ver, TRUE)
                     /\ run' = [run EXCEPT ![r] =
                          [@ EXCEPT !.pc = IF Tail(run[r].todo) = << >>
                                             THEN "files" ELSE "commitLoop",
                                    !.todo = Tail(@)]]
  /\ UNCHANGED << eval, repo, nextId, branch, file, contributor, language, dirs, version, call >>

\* One turn of the loop: commit.create, then fileChange.createMany for the
\* created commit; a failure of either is caught inside the loop.
CommitLoop(r) ==
  /\ run[r].pc = "commitLoop"
  /\ LET c == Head(run[r].todo)
         row == CommitRow(c, run[r].id)
     IN  \E o \in Outcomes({"db", "dbFileChanges"}) :
           /\ Spend(o)
           /\ IF PersistFails(r, o) \/ KeyTaken(commit, CommitKey, row)
                THEN UNCHANGED << commit, fileChange, snap >>
                ELSE /\ commit' = Create(commit, row)
                     /\ fileChange' =
                          IF o = "dbFileChanges" THEN fileChange
                          ELSE CreateAll(fileChange, FileChangeRows(c, run[r].id))
                     /\ Touch(run[r].id, run[r].ver, TRUE)
           /\ run' = [run EXCEPT ![r] =
                [@ EXCEPT !.pc = IF Tail(run[r].todo) = << >> THEN "files" ELSE "commitLoop",
                          !.todo = Tail(@)]]
  /\ UNCHANGED << eval, repo, nextId, branch, file, contributor, language, dirs, version, call >>

\* const newFiles = files.filter((file) => !existingPaths.has(file.path))
NewFiles(files, existing) ==
  SelectSeq(files, LAMBDA f : \A x \in BagToSet(existing) : x.path # f.path)

\* getFileTree, then file.findMany({ where: { repositoryId } })
Files(r) ==
  /\ run[r].pc = "files"
  /\ \E o \in Outcomes({"git"}) :
       /\ Spend(o)
       /\ IF o = "git" THEN Raise(r, "FileTree")
          ELSE LET new == NewFiles(GetFileTree(run[r].ver), RowsOf(file, run[r].id))
               IN  run' = [run EXCEPT ![r] =
                     [@ EXCEPT !.pc = IF new = << >> THEN "contributors" ELSE "fileChunks",
                               !.newFiles = new]]
  /\ UNCHANGED << eval, repo, nextId, tables, dirs, version, call, snap >>

ChunkSize == 500

\* newFiles.slice(i, i + chunkSize)
Chunk(files) == SubSeq(files, 1, IF Len(files) < ChunkSize THEN Len(files) ELSE ChunkSize)

\* Mutant: the loop over the chunks steps one row too far.
RestAfterChunk_SkipsOne(files) ==
  SubSeq(files, (IF Len(files) < ChunkSize THEN Len(files) ELSE ChunkSize) + 2, Len(files))

RestAfterChunk(files) ==
  SubSeq(files, (IF Len(files) < ChunkSize THEN Len(files) ELSE ChunkSize) + 1, Len(files))

\* file.createMany({ data: chunk, skipDuplicates: true })
FileCreateMany(rows) == CreateManySkipDuplicates(file, FileKey, rows)

FileChunks(r) ==
  /\ run[r].pc = "fileChunks"
  /\ \E o \in Outcomes({"db"}) :
       /\ Spend(o)
       /\ IF PersistFails(r, o) THEN Raise(r, "Db") /\ UNCHANGED << file, snap >>
          ELSE /\ file' = FileCreateMany(
                    [i \in DOMAIN Chunk(run[r].newFiles) |->
                       FileRow(Chunk(run[r].newFiles)[i], run[r].id)])
               /\ Touch(run[r].id, run[r].ver, file' # file)
               /\ run' = [run EXCEPT ![r] =
                    [@ EXCEPT !.pc = IF RestAfterChunk(run[r].newFiles) = << >>
                                       THEN "contributors" ELSE "fileChunks",
                              !.newFiles = RestAfterChunk(@)]]
  /\ UNCHANGED << eval, repo, nextId, branch, commit, fileChange, contributor, language,
                  dirs, version, call >>

\* The loop over the chunks as one function of the table it inserts into.
RECURSIVE InsertChunks(_, _, _)
InsertChunks(table, newFiles, id) ==
  IF newFiles = << >> THEN table
  ELSE InsertChunks(
         CreateManySkipDuplicates(table, FileKey,
           [i \in DOMAIN Chunk(newFiles) |-> FileRow(Chunk(newFiles)[i], id)]),
         RestAfterChunk(newFiles), id)

\* The file step as one function: found is the File table when findMany
\* reads the repository's rows, table the File table by the time the chunks
\* are inserted.
FileStep(found, table, tree, id) ==
  InsertChunks(table, NewFiles(tree, RowsOf(found, id)), id)

\* The rows a loop of awaited creates leaves when its create number
\* failedAt raises (none raises when failedAt = 0).
CreatedBefore(rows, failedAt) ==
  IF failedAt = 0 THEN rows ELSE SubSeq(rows, 1, failedAt - 1)

\* getContributors, then contributor.create for each contributor.
ContributorCreates(rows) == CreateAll(contributor, rows)

\* Mutant: the run goes from the contributors straight to the final update.
Contributors_SkipsLanguages(r) ==
  /\ run[r].pc = "contributors"
  /\ \E o \in Outcomes({"git", "db"}) :
       /\ Spend(o)
       /\ IF o = "git" THEN Raise(r, "Contributors") /\ contributor' = contributor
          ELSE LET rows == ContributorRows(run[r].ver, run[r].id)
               IN  IF rows # << >> /\ PersistFails(r, o)
                     THEN \E k \in IF repo[run[r].id].exists THEN DOMAIN rows ELSE {1} :
                            /\ contributor' = ContributorCreates(CreatedBefore(rows, k))
                            /\ Raise(r, "Db")
                     ELSE /\ o = "ok"
                          /\ contributor' = ContributorCreates(rows)
                          /\ Goto(r, "final")
  /\ UNCHANGED << eval, repo, nextId, branch, commit, fileChange, file, language,
                  dirs, version, call, snap >>

Contributors(r) ==
  /\ run[r].pc = "contributors"
  /\ \E o \in Outcomes({"git", "db"}) :
       /\ Spend(o)
       /\ IF o = "git" THEN Raise(r, "Contributors") /\ contributor' = contributor
          ELSE LET rows == ContributorRows(run[r].ver, run[r].id)
               IN  IF rows # << >> /\ PersistFails(r, o)
                     THEN \E k \in IF repo[run[r].id].exists THEN DOMAIN rows ELSE {1} :
                            /\ contributor' = ContributorCreates(CreatedBefore(rows, k))
                            /\ Raise(r, "Db")
                     ELSE /\ o = "ok"
                          /\ contributor' = ContributorCreates(rows)
                          /\ Goto(r, "languages")
  /\ UNCHANGED << eval, repo, nextId, branch, commit, fileChange, file, language,
                  dirs, version, call, snap >>

\* detectLanguages, the percentages, then language.create for each language.
LanguageCreates(rows) == CreateAll(language, rows)

Languages(r) ==
  /\ run[r].pc = "languages"
  /\ \E o \in Outcomes({"git", "db"}) :
       /\ Spend(o)
       /\ IF o = "git" THEN Raise(r, "Languages") /\ language' = language
          ELSE LET rows == LanguageRows(run[r].ver, run[r].id)
               IN  IF rows # << >> /\ PersistFails(r, o)
                     THEN \E k \in IF repo[run[r].id].exists THEN DOMAIN rows ELSE {1} :
                            /\ language' = LanguageCreates(CreatedBefore(rows, k))
                            /\ Raise(r, "Db")
                     ELSE /\ o = "ok"
                          /\ language' = LanguageCreates(rows)
                          /\ Goto(r, "final")
  /\ UNCHANGED << eval, repo, nextId, branch, commit, fileChange, file, contributor,
                  dirs, version, call, snap >>

\* Mutant: the final update leaves defaultBranch as it was.
Completed_KeepsDefaultBranch(row, v) ==
  [row EXCEPT !.status = "completed", !.analyzed = TRUE, !.size = RemoteSize(v)]

\* update({ data: { status: 'completed', lastAnalyzedAt, defaultBranch, size } })
Completed(row, v) ==
  [row EXCEPT !.status = "completed", !.analyzed = TRUE,
              !.defaultBranch = DefaultBranchOf(GetBranches(v)), !.size = RemoteSize(v)]

\* finally { if (gitService) await gitService.cleanup() }: fs.rm of the
\* run's own directory, whose failure cleanup logs and swallows.  The
\* promise then settles: fulfilled without an error, rejected with it.
Settle(r, err, wroteFailed, o) ==
  /\ dirs' = IF run[r].git /\ o = "ok" THEN dirs \ {r} ELSE dirs
  /\ run' = [run EXCEPT ![r] =
       [@ EXCEPT !.pc = IF err = "None" THEN "returned" ELSE "thrown",
                 !.err = err, !.wroteFailed = wroteFailed, !.rmFailed = (o = "rm"),
                 !.url = "", !.ver = 0, !.todo = << >>, !.newFiles = << >>]]

CleanupOutcomes(r) == IF run[r].git THEN Outcomes({"rm"}) ELSE {"ok"}

Final(r) ==
  /\ run[r].pc = "final"
  /\ LET id == run[r].id
     IN  IF repo[id].exists
           THEN /\ repo' = [repo EXCEPT ![id] = Completed(@, run[r].ver)]
                /\ \E o \in CleanupOutcomes(r) : Spend(o) /\ Settle(r, "None", FALSE, o)
                /\ snap' = [snap EXCEPT ![id] =
                     [valid |-> TRUE, ver |-> run[r].ver,
                      branches |-> CountOf(branch, id),
                      commits |-> CountOf(commit, id),
                      files |-> CountOf(file, id),
                      complete |-> \A c \in Range(GetCommits(run[r].ver, CommitLimit)) :
                                     KeyTaken(commit, CommitKey, CommitRow(c, id)),
                      again |-> snap[id].valid /\ snap[id].ver = run[r].ver]]
           ELSE /\ Raise(r, "RecordNotFound")
                /\ UNCHANGED << repo, snap, dirs, faults >>
  /\ UNCHANGED << eval, nextId, tables, version, call >>

\* Mutant: the catch block rethrows without writing status failed.
Catch_RethrowsOnly(r) ==
  /\ run[r].pc = "catch"
  /\ \E o \in CleanupOutcomes(r) :
       /\ Spend(o)
       /\ repo' = repo
       /\ Settle(r, run[r].err, FALSE, o)
  /\ UNCHANGED << eval, nextId, tables, version, call, snap >>

\* catch (error) { await update({ data: { status: 'failed' } }); throw error }
\* The update of a row that is gone rejects, and its error replaces error.
Catch(r) ==
  /\ run[r].pc = "catch"
  /\ \E o \in CleanupOutcomes(r) :
       /\ Spend(o)
       /\ IF repo[run[r].id].exists
            THEN /\ repo' = [repo EXCEPT ![run[r].id] = [@ EXCEPT !.status = "failed"]]
                 /\ Settle(r, run[r].err, TRUE, o)
            ELSE /\ repo' = repo
                 /\ Settle(r, "RecordNotFound", FALSE, o)
  /\ UNCHANGED << eval, nextId, tables, version, call, snap >>

\* createRepository's .catch((error) => { prisma.repository.update({ data:
\* { status: 'failed' } }).catch(console.error) })
Handler(r) ==
  /\ run[r].pc = "thrown"
  /\ run[r].origin = "create"
  /\ ~run[r].handled
  /\ repo' = IF repo[run[r].id].exists
               THEN [repo EXCEPT ![run[r].id] = [@ EXCEPT !.status = "failed"]]
               ELSE repo
  /\ run' = [run EXCEPT ![r] = [@ EXCEPT !.handled = TRUE]]
  /\ UNCHANGED << eval, nextId, tables, dirs, version, call, faults, snap >>

\* ------------------------------------------------------ the specification
Next ==
  \/ \E c \in Calls : CreateLookup(c) \/ CreateInsert(c) \/ CreateStart(c)
  \/ \E id \in Ids : Reanalyze(id) \/ DeleteRepository(id)
  \/ \E u \in Urls : Push(u)
  \/ \E r \in Runs :
       \/ Load(r) \/ SetAnalyzing(r) \/ CloneRepository(r) \/ Branches(r)
       \/ Commits(r) \/ CommitLoop(r) \/ Files(r) \/ FileChunks(r)
       \/ Contributors(r) \/ Languages(r) \/ Final(r) \/ Catch(r) \/ Handler(r)

Spec == Init /\ [][Next]_vars

\* -------------------------------------------- the runs under fair scheduling
\* The next continuation of run r: every await of analyzeRepository resumes
\* once the promise it waits for settles.
RunStep(r) ==
  \/ Load(r) \/ SetAnalyzing(r) \/ CloneRepository(r) \/ Branches(r)
  \/ Commits(r) \/ CommitLoop(r) \/ Files(r) \/ FileChunks(r)
  \/ Contributors(r) \/ Languages(r) \/ Final(r) \/ Catch(r)

\* Run r is between two awaits of analyzeRepository.
Awaiting(r) == run[r].pc \notin {"idle", "returned", "thrown"}

\* A step of run r: the steps of RunStep(r) are those that change run[r]
\* while it is awaiting, and one is possible whenever it is awaiting.
Resumed(r) == Awaiting(r) /\ run'[r] # run[r]

\* Weak fairness of the steps of run r, WF_vars(Resumed(r)), written with
\* the state predicate that ENABLED << Resumed(r) >>_vars is: a run is not
\* left awaiting for ever without being resumed.
FairRun(r) == []<>(~Awaiting(r)) \/ []<><< Resumed(r) >>_vars

\* The program on one createRepository call and the requests that follow
\* it, while no Repository row is deleted: the process stays up, and every
\* call a run awaits returns or raises, so the event loop resumes the run.
LiveCalls == {c \in Calls : \A d \in Calls : c <= d}

LiveNext ==
  \/ \E c \in LiveCalls : CreateLookup(c) \/ CreateInsert(c) \/ CreateStart(c)
  \/ \E id \in Ids : Reanalyze(id)
  \/ \E u \in Urls : Push(u)
  \/ \E r \in Runs : RunStep(r) \/ Handler(r)

LiveSpec == Init /\ [][LiveNext]_vars /\ \A r \in Runs : FairRun(r)

\* --------------------------------------- the functions, one evaluation each
\* Lengths of the inputs the functions are evaluated on.
MaxLog == 2
MaxHistory == 3
MaxStatLines == 2
MaxLanguages == 4
MaxBytes == 6
MaxFiles == 1001
MaxListing == 2

SeqsUpTo(S, n) == UNION {[1..k -> S] : k \in 1..n}

\* Commit records as git log writes them; the first of a log touches a file,
\* the second none.
LogRecords ==
  [shape : {"ok", "emptyEmail", "noEmailField"},
   subject : {<< "fix" >>, << "a", "|", "b" >>},
   body : {<< >>, << "x" >>, << "x", "|", "y" >>, << "x", "\n", "y", "|", "z" >>}]

Logs ==
  {[i \in DOMAIN l |-> [hash |-> IF i = 1 THEN "H1" ELSE "H2", shape |-> l[i].shape,
                         subject |-> l[i].subject, body |-> l[i].body,
                         stat |-> (i = 1)]] :
     l \in SeqsUpTo(LogRecords, MaxLog)}

\* The files one commit touches.
StatLines ==
  [binary : {FALSE}, add : {0, 3, 12}, del : {0, 3, 12}, path : {"p"}]
    \cup {[binary |-> TRUE, add |-> 0, del |-> 0, path |-> "p"]}

\* Histories, newest commit first: who wrote each commit and how many files
\* it touches.
Histories ==
  {[i \in DOMAIN h |->
      [hash |-> Len(h) + 1 - i, authorEmail |-> h[i].authorEmail,
       committedAt |-> Len(h) + 1 - i,
       numstat |-> [j \in 1..h[i].files |-> [path |-> "p", add |-> 1, del |-> 0]]]] :
     h \in SeqsUpTo([authorEmail : {"a@x", "b@x"}, files : 0..2], MaxHistory)}

\* What detectLanguages returns: languages in descending order of bytes.
LanguageNames == << "TypeScript", "JSON", "Python", "Go", "Rust" >>

LanguageArrays ==
  {[i \in DOMAIN b |-> [name |-> LanguageNames[i], bytes |-> b[i], lines |-> 1]] :
     b \in {c \in SeqsUpTo(1..MaxBytes, MaxLanguages) :
              \A i \in 1..(Len(c) - 1) : c[i] >= c[i + 1]}}

\* File trees of repository 1 and the File tables they meet: rows of paths
\* seen before with other sizes, of a path the tree no longer has, of
\* another repository; later holds what a concurrent run inserts between
\* findMany and createMany.
TreeOf(n) == [i \in 1..n |-> [path |-> i, size |-> 2, lines |-> 2, language |-> "Go"]]

StaleRow(id, path) ==
  [repositoryId |-> id, path |-> path, size |-> 1, lines |-> 1, language |-> ""]

FileCases ==
  [n : {0, 2, ChunkSize, ChunkSize + 1, MaxFiles},
   found : {EmptyBag,
            SetToBag({StaleRow(1, 1), StaleRow(1, ChunkSize + 1),
                      StaleRow(1, MaxFiles + 1), StaleRow(2, 2)})},
   later : {EmptyBag, SetToBag({FileRow(TreeOf(2)[2], 1)})}]

\* What git ls-files may list: one path per extension, in upper case too,
\* one without extension and two that shouldIgnoreFile matches.
ListedPaths ==
  {[path |-> "a.ts", extension |-> ".ts"], [path |-> "b.TS", extension |-> ".TS"],
   [path |-> "c.tsx", extension |-> ".tsx"], [path |-> "b.py", extension |-> ".py"],
   [path |-> "e.mjs", extension |-> ".mjs"], [path |-> "d.json", extension |-> ".json"],
   [path |-> "Makefile", extension |-> ""],
   [path |-> "node_modules/m.ts", extension |-> ".ts"],
   [path |-> "yarn.lock", extension |-> ".lock"]}

Listings ==
  {[i \in DOMAIN l |-> [path |-> l[i].file.path, extension |-> l[i].file.extension,
                        size |-> l[i].size, lines |-> 1]] :
     l \in {m \in SeqsUpTo([file : ListedPaths, size : {0, 2, 5}], MaxListing) :
              \A i, j \in DOMAIN m : i # j => m[i].file # m[j].file}}

\* Logs of well-formed records without '|' in the subject and without a
\* body, and for each hash what git show does: it
\* fails, or writes no line, or one line, or two.
ShowOutcomes ==
  {[failed |-> TRUE, lines |-> << >>]}
    \cup {[failed |-> FALSE, lines |-> ls] :
            ls \in {<< >>,
                    << [binary |-> FALSE, add |-> 3, del |-> 0, path |-> "p"] >>,
                    << [binary |-> FALSE, add |-> 0, del |-> 12, path |-> "p"],
                       [binary |-> TRUE, add |-> 0, del |-> 0, path |-> "q"] >>}}

LookupCases ==
  [log : {l \in Logs : \A i \in DOMAIN l :
                          /\ l[i].shape = "ok"
                          /\ "|" \notin Range(l[i].subject)
                          /\ l[i].body = << >>},
   shows : [Hashes -> ShowOutcomes]]

\* fn is to be evaluated on one of inputs.
Given(fn, inputs) == eval \in {[NoEval EXCEPT !.fn = fn, !.in = x] : x \in inputs}

EvalInit ==
  /\ Constructed
  /\ \/ Given("getCommits", Logs)
     \/ Given("getFileChanges", SeqsUpTo(StatLines, MaxStatLines))
     \/ Given("getContributors", Histories)
     \/ Given("percentages", LanguageArrays)
     \/ Given("files", FileCases)
     \/ Given("detectLanguages", Listings)
     \/ Given("fileChangeLookups", LookupCases)

Pending(fn) == eval.fn = fn /\ ~eval.done

Result(out) == [eval EXCEPT !.done = TRUE, !.out = out]

EvalGetCommits ==
  /\ Pending("getCommits")
  /\ eval' = Result(ParseLog(FormatLog(eval.in)))
  /\ UNCHANGED pipeline

EvalGetFileChanges ==
  /\ Pending("getFileChanges")
  /\ eval' = Result(ParseNumstat(FormatNumstat(eval.in)))
  /\ UNCHANGED pipeline

EvalGetContributors ==
  /\ Pending("getContributors")
  /\ eval' = Result(ContribLog(<< >>, eval.in))
  /\ UNCHANGED pipeline

EvalPercentages ==
  /\ Pending("percentages")
  /\ eval' = Result(AdjustedPercentages(RoundedPercentages(FilteredLanguages(eval.in))))
  /\ UNCHANGED pipeline

EvalFileStep ==
  /\ Pending("files")
  /\ eval' = Result(FileStep(eval.in.found, eval.in.found (+) eval.in.later,
                             TreeOf(eval.in.n), 1))
  /\ UNCHANGED pipeline

\* getFileTree and detectLanguages on one clone.
EvalDetectLanguages ==
  /\ Pending("detectLanguages")
  /\ eval' = Result([files |-> FileTree(eval.in),
                     languages |-> LanguagesOf(FileTree(eval.in))])
  /\ UNCHANGED pipeline

\* getCommits with the lookup of each commit's file changes.
EvalFileChangeLookups ==
  /\ Pending("fileChangeLookups")
  /\ eval' = Result(WithFileChanges(ParseLog(FormatLog(eval.in.log)), eval.in.shows))
  /\ UNCHANGED pipeline

EvalNext ==
  \/ EvalGetCommits \/ EvalGetFileChanges \/ EvalGetContributors
  \/ EvalPercentages \/ EvalFileStep \/ EvalDetectLanguages
  \/ EvalFileChangeLookups

EvalSpec == EvalInit /\ [][EvalNext]_vars

\* ----------------------------------------------------------- properties
Active(r) == run[r].pc \notin {"idle", "returned", "thrown"}

\* The step in which run r's analyzeRepository writes status completed and
\* returns.
Completes(r) == run[r].pc = "final" /\ run'[r].pc = "returned"

\* The runs a step starts.
StartedBy(id) == {r \in Runs : run[r].pc = "idle" /\ run'[r].pc = "load" /\ run'[r].id = id}

AllowedTransitions ==
  { << "pending", "analyzing" >>, << "analyzing", "completed" >>,
    << "analyzing", "failed" >>, << "failed", "analyzing" >>,
    << "completed", "analyzing" >> }

\* C1: every change of a Repository row's status is one of pending ->
\* analyzing, analyzing -> completed, analyzing -> failed, failed ->
\* analyzing, completed -> analyzing.
C1_StatusTransitions ==
  [][\A id \in Ids :
       (repo[id].exists /\ repo'[id].exists /\ repo'[id].status # repo[id].status)
         => << repo[id].status, repo'[id].status >> \in AllowedTransitions]_vars

\* C2: there is at most one Repository row for each (url, userId) pair.
C2_OneRowPerUrlAndUser ==
  \A i, j \in Ids :
    (repo[i].exists /\ repo[j].exists /\ repo[i].url = repo[j].url
       /\ repo[i].userId = repo[j].userId) => i = j

\* C3: once an analyzeRepository call that got past loading the repository
\* has returned or thrown, its scratch directory no longer exists, unless
\* the deletion itself failed.
C3_ScratchDirectoryRemoved ==
  \A r \in Runs :
    (run[r].pc \in {"returned", "thrown"} /\ run[r].err # "NotFound" /\ ~run[r].rmFailed)
      => r \notin dirs

\* C4: no two analyzeRepository executions for one repository id are in
\* progress at the same time.
C4_SingleFlight ==
  \A r, s \in Runs : (r # s /\ Active(r) /\ Active(s)) => run[r].id # run[s].id

\* C5: when a step after the status was set to analyzing raised, the status
\* was set to failed and analyzeRepository rejected with that same error.
C5_FailedAndSameErrorRaised ==
  \A r \in Runs :
    (run[r].pc = "thrown" /\ run[r].stepErr # "None")
      => (run[r].wroteFailed /\ run[r].err = run[r].stepErr)

\* C6: createRepository starts an analysis exactly when it finds no row for
\* (url, userId), after creating one with status pending, or when the row it
\* finds has status failed or pending; for a row with status completed or
\* analyzing it starts none and changes no state; it returns the row found.
C6_CreateStartsAnalysis ==
  [][\A c \in Calls :
       LET rows == {i \in Ids : repo[i].exists /\ repo[i].url = call'[c].url
                                  /\ repo[i].userId = call'[c].userId}
           i == call'[c].ret
       IN  /\ (call[c].pc = "idle" /\ call'[c].pc = "create")
                => (rows = {} /\ run' = run /\ repo' = repo)
           /\ (call[c].pc = "idle" /\ call'[c].pc = "done")
                => /\ i \in rows
                   /\ repo' = repo /\ tables' = tables
                   /\ \A j \in Ids \ {i} : StartedBy(j) = {}
                   /\ Cardinality(StartedBy(i)) =
                        (IF repo[i].status \in {"failed", "pending"} THEN 1 ELSE 0)
                   /\ repo[i].status \in {"completed", "analyzing"} => run' = run
           /\ (call[c].pc = "create" /\ call'[c].pc = "created")
                => /\ ~repo[i].exists /\ repo'[i].exists
                   /\ repo'[i].status = "pending"
                   /\ repo'[i].url = call[c].url /\ repo'[i].userId = call[c].userId
                   /\ run' = run
           /\ (call[c].pc = "created" /\ call'[c].pc = "done")
                => /\ call'[c].ret = call[c].ret
                   /\ Cardinality(StartedBy(i)) = 1
                   /\ \A j \in Ids \ {i} : StartedBy(j) = {}]_vars

\* A call found a row that an earlier call created and retried its analysis.
C6_Witness ==
  \E c, d \in Calls :
    /\ c # d /\ call[c].pc = "done" /\ call[d].pc = "done" /\ call[c].ret = call[d].ret
    /\ \E r, s \in Runs :
         /\ r # s /\ run[r].origin = "create" /\ run[s].origin = "create"
         /\ run[r].id = call[c].ret /\ run[s].id = call[c].ret

\* No other execution for run r's repository is in progress.
Alone(r) == \A s \in Runs \ {r} : Active(s) => run[s].id # run[r].id

\* C7, as claimed: a run that completes on the content of the last completed
\* run leaves the numbers of Branch, Commit and File rows what they were
\* after that run.
C7_CountsUnchanged ==
  [][\A r \in Runs :
       LET id == run[r].id
       IN  (Completes(r) /\ snap[id].valid /\ snap[id].ver = run[r].ver)
             => /\ CountOf(branch, id) = snap[id].branches
                /\ CountOf(commit, id) = snap[id].commits
                /\ CountOf(file, id) = snap[id].files]_vars

\* C7, amended: the numbers of Branch and File rows are unchanged, and the
\* number of Commit rows is unchanged when the earlier run left every
\* extracted commit persisted (it skipped no commit insert that failed).
C7_CountsUnchangedUnlessSkipped ==
  [][\A r \in Runs :
       LET id == run[r].id
       IN  (Completes(r) /\ snap[id].valid /\ snap[id].ver = run[r].ver)
             => /\ CountOf(branch, id) = snap[id].branches
                /\ CountOf(file, id) = snap[id].files
                /\ snap[id].complete => CountOf(commit, id) = snap[id].commits]_vars

\* A second run completed on the content of the run before it, which had
\* persisted every commit.
C7_Witness ==
  \E id \in Ids :
    /\ snap[id].valid /\ snap[id].again /\ snap[id].complete
    /\ snap[id].commits > 0 /\ snap[id].files > 0 /\ snap[id].branches > 0

\* C8: after a completed run the Contributor rows of the repository are
\* exactly the aggregates that run computed, the rows of earlier runs gone.
C8_ContributorsReplaced ==
  [][\A r \in Runs :
       (Completes(r) /\ Alone(r))
         => RowsOf(contributor, run[r].id)
              = CreateAll(EmptyBag, ContributorRows(run[r].ver, run[r].id))]_vars

\* C9: after a completed run the Language rows of the repository are exactly
\* the rows that run computed, the rows of earlier runs gone.
C9_LanguagesReplaced ==
  [][\A r \in Runs :
       (Completes(r) /\ Alone(r))
         => RowsOf(language, run[r].id)
              = CreateAll(EmptyBag, LanguageRows(run[r].ver, run[r].id))]_vars

\* The errors of the clone and of the extraction steps, and those of the
\* persistence steps.
ExtractionErrors ==
  {"Clone", "Branches", "Commits", "FileTree", "Contributors", "Languages"}

PersistenceErrors == {"Db", "RecordNotFound"}

\* No key of the table is held by two rows of repository id.
UniqueKeys(table, key, id) ==
  \A x \in DOMAIN RowsOf(table, id) :
    /\ table[x] = 1
    /\ \A y \in DOMAIN RowsOf(table, id) : (\A f \in key : x[f] = y[f]) => x = y

\* What a run that read status failed does to the status and leaves in the
\* Branch and Commit tables, when it can only fail with one of errors.
ReanalysisAfterFailure(errors) ==
  \A r \in Runs :
    run[r].priorFailed =>
      /\ (run[r].pc = "setAnalyzing" /\ run'[r].pc = "clone")
            => repo'[run[r].id].status = "analyzing"
      /\ (run[r].pc # "catch" /\ run'[r].pc = "catch") => run'[r].stepErr \in errors
      /\ (run[r].pc = "final" /\ run'[r].pc # "final")
            => \/ run'[r].pc = "catch" /\ ~repo[run[r].id].exists
               \/ /\ run'[r].pc = "returned"
                  /\ repo'[run[r].id].status = "completed"
                  /\ UniqueKeys(branch', BranchKey, run[r].id)
                  /\ UniqueKeys(commit', CommitKey, run[r].id)

\* C11, as claimed: a run on a repository left failed sets the status to
\* analyzing and then, unless its clone or an extraction step fails, to
\* completed, and then no Branch row repeats a (repositoryId, name) and no
\* Commit row a (repositoryId, hash).
C11_ReanalysisCompletes == [][ReanalysisAfterFailure(ExtractionErrors)]_vars

\* C11, amended: the run also ends failed when one of its persistence steps
\* fails or its Repository row is deleted meanwhile.
C11_ReanalysisCompletesUnlessPersistenceFails ==
  [][ReanalysisAfterFailure(ExtractionErrors \cup PersistenceErrors)]_vars

\* A run failed after it had persisted branches and commits, and a later run
\* on the failed repository completed.
C11_Witness ==
  \E r, s \in Runs :
    /\ run[s].pc = "thrown" /\ run[s].stepErr \in {"FileTree", "Contributors", "Languages"}
    /\ run[r].pc = "returned" /\ run[r].priorFailed /\ run[r].id = run[s].id
    /\ repo[run[r].id].exists /\ repo[run[r].id].status = "completed"
    /\ CountOf(commit, run[r].id) > 0 /\ CountOf(branch, run[r].id) > 0

\* C12: analyzeRepository for an id without a Repository row raises
\* 'Repository not found' at once and changes nothing: no status, no scratch
\* directory, no row of any table.
C12_NotFoundChangesNothing ==
  [][\A r \in Runs :
       /\ (run[r].pc = "load" /\ run'[r].pc # "load" /\ ~repo[run[r].id].exists)
            => /\ run'[r].pc = "thrown" /\ run'[r].err = "NotFound"
               /\ run'[r].stepErr = "None" /\ ~run'[r].wroteFailed
               /\ repo' = repo /\ tables' = tables /\ dirs' = dirs
       /\ run[r].err = "NotFound"
            => /\ r \notin dirs /\ run'[r].pc = "thrown" /\ run'[r].err = "NotFound"
               /\ (run'[r] # run[r])
                    => (repo' = repo /\ tables' = tables /\ dirs' = dirs)]_vars

\* An analyzeRepository call found its repository deleted.
C12_Witness ==
  \E r \in Runs : run[r].pc = "thrown" /\ run[r].err = "NotFound" /\ run[r].handled

\* C13: when deleting the scratch directory fails, the run ends as it would
\* have otherwise: a successful run returns with status completed, a failed
\* run raises its original error with status failed, and the deletion
\* failure is never raised.
C13_CleanupFailureSwallowed ==
  [][\A r \in Runs :
       (run'[r].rmFailed /\ ~run[r].rmFailed)
         => /\ run[r].pc = "final"
                 => /\ run'[r].pc = "returned" /\ run'[r].err = "None"
                    /\ repo'[run[r].id].status = "completed"
            /\ run[r].pc = "catch"
                 => /\ run'[r].pc = "thrown" /\ run'[r].err = run[r].stepErr
                    /\ repo'[run[r].id].status = "failed"]_vars

\* C19: a commit insert that fails in the commit loop does not propagate:
\* the loop goes on to the next new commit, every commit whose insert does
\* not fail is persisted, and the run goes on to the file step.
C19_CommitFailureIsolated ==
  [][\A r \in Runs :
       (run[r].pc = "commitLoop" /\ run'[r] # run[r])
         => /\ run'[r].pc = (IF Len(run[r].todo) = 1 THEN "files" ELSE "commitLoop")
            /\ run'[r].todo = Tail(run[r].todo)
            /\ run'[r].stepErr = "None" /\ run'[r].err = "None"
            /\ commit \sqsubseteq commit'
            /\ (faults' = faults /\ repo[run[r].id].exists)
                 => KeyTaken(commit', CommitKey, CommitRow(Head(run[r].todo), run[r].id))]_vars

\* A run completed although one of its commit inserts failed, the other
\* commit persisted.
C19_Witness ==
  \E id \in Ids :
    /\ snap[id].valid /\ ~snap[id].complete /\ snap[id].commits > 0
    /\ repo[id].exists /\ repo[id].status = "completed"
    /\ CountOf(contributor, id) > 0 /\ CountOf(language, id) > 0

Evaluated(fn) == eval.fn = fn /\ eval.done

\* C14: getContributors returns, for every email that authored a commit of
\* the history, a contributor whose commits is the number of commits that
\* email authored, however many files each of them touches.
C14_CommitsCounted ==
  Evaluated("getContributors") =>
    \A e \in {eval.in[i].authorEmail : i \in DOMAIN eval.in} :
      \E k \in DOMAIN eval.out :
        /\ eval.out[k].email = e
        /\ eval.out[k].commits
             = Cardinality({i \in DOMAIN eval.in : eval.in[i].authorEmail = e})

\* C15: when the filtered languages have bytes, the percentages, each
\* rounded to hundredths and then corrected, sum to 100.00, and only the
\* first entry holding the largest rounded percentage differs from its
\* rounded value, by the whole residual.
C15_ResidualToLargest ==
  LET filtered == FilteredLanguages(eval.in)
      totalBytes == TotalBytes(filtered)
      rounded == RoundedPercentages(filtered)
      largest == CHOOSE i \in DOMAIN rounded :
                   /\ \A j \in DOMAIN rounded : rounded[j] <= rounded[i]
                   /\ \A j \in 1..(i - 1) : rounded[j] < rounded[i]
  IN  (Evaluated("percentages") /\ totalBytes > 0) =>
        /\ DOMAIN eval.out = DOMAIN filtered
        /\ \A i \in DOMAIN filtered :
             LET d == rounded[i] * totalBytes - 10000 * filtered[i].bytes
             IN  2 * d <= totalBytes /\ -2 * d <= totalBytes
        /\ SumSeq(eval.out) = 10000
        /\ \A i \in DOMAIN eval.out \ {largest} : eval.out[i] = rounded[i]
        /\ eval.out[largest] = rounded[largest] + (10000 - SumSeq(rounded))

\* Three languages tie at 33.33 and the first of them takes the residual.
C15_Witness ==
  LET rounded == RoundedPercentages(FilteredLanguages(eval.in))
  IN  /\ Evaluated("percentages")
      /\ Len(rounded) = 3 /\ rounded[1] = rounded[2] /\ SumSeq(rounded) # 10000
      /\ eval.out[1] # rounded[1]

\* C16: every record whose body holds a '|' yields a commit whose message is
\* the subject and whose description is the whole body.
C16_BodyPreserved ==
  Evaluated("getCommits") =>
    \A i \in DOMAIN eval.in :
      (eval.in[i].shape = "ok" /\ "|" \in Range(eval.in[i].body))
        => \E k \in DOMAIN eval.out :
             /\ eval.out[k].hash = << eval.in[i].hash >>
             /\ eval.out[k].message = eval.in[i].subject
             /\ eval.out[k].description = eval.in[i].body

\* The hashes of the commits returned, in order.
HashesOf(commits) == [k \in DOMAIN commits |-> commits[k].hash]

\* C17: for a log in which one record lacks the author email, getCommits
\* returns no commit for that record and one for every other record.
C17_MalformedDropped ==
  (Evaluated("getCommits")
     /\ Cardinality({i \in DOMAIN eval.in : eval.in[i].shape # "ok"}) = 1)
    => HashesOf(eval.out)
         = HashesOf(SelectSeq([i \in DOMAIN eval.in |->
                                 [hash |-> << eval.in[i].hash >>, shape |-> eval.in[i].shape]],
                              LAMBDA c : c.shape = "ok"))

\* C18: getFileChanges reads the numbers of every line, 0 and 0 for a binary
\* file, and calls the change added iff additions > 0 and deletions = 0,
\* deleted iff additions = 0 and deletions > 0, modified otherwise.
C18_ChangeTypes ==
  Evaluated("getFileChanges") =>
    /\ DOMAIN eval.out = DOMAIN eval.in
    /\ \A i \in DOMAIN eval.in :
         LET l == eval.in[i]
             c == eval.out[i]
         IN  /\ c.path = << l.path >>
             /\ c.additions = l.add /\ c.deletions = l.del
             /\ c.changeType \in {"added", "deleted", "modified"}
             /\ c.changeType = "added" <=> (l.add > 0 /\ l.del = 0)
             /\ c.changeType = "deleted" <=> (l.add = 0 /\ l.del > 0)
             /\ l.binary => (c.additions = 0 /\ c.deletions = 0
                               /\ c.changeType = "modified")

\* A binary file and a deleted file in one commit.
C18_Witness ==
  /\ Evaluated("getFileChanges")
  /\ \E i, j \in DOMAIN eval.in :
       /\ eval.in[i].binary /\ eval.out[i].changeType = "modified"
       /\ eval.in[j].add = 0 /\ eval.in[j].del = 12
       /\ eval.out[j].changeType = "deleted" /\ eval.out[j].deletions = 12

\* The paths of repository id that hold a File row of the table.
PathsOf(table, id) == {x.path : x \in DOMAIN RowsOf(table, id)}

\* C20: the file step modifies and deletes no File row; it inserts one row
\* for each extracted path that has none, exactly once whatever the number
\* of chunks, and none for a path that has one.
C20_FileRowsOnlyAdded ==
  Evaluated("files") =>
    LET table == eval.in.found (+) eval.in.later
        tree == TreeOf(eval.in.n)
        new == {i \in DOMAIN tree : tree[i].path \notin PathsOf(table, 1)}
    IN  /\ table \sqsubseteq eval.out
        /\ \A x \in DOMAIN table : eval.out[x] = table[x]
        /\ \A i \in new : FileRow(tree[i], 1) \in DOMAIN eval.out
        /\ BagCardinality(eval.out) = BagCardinality(table) + Cardinality(new)
        /\ UniqueKeys(eval.out, FileKey, 1)

\* A tree of three chunks met rows of paths seen before, which kept their
\* old size, and a row a concurrent run had just inserted.
C20_Witness ==
  /\ Evaluated("files")
  /\ eval.in.n = MaxFiles /\ eval.in.later # EmptyBag
  /\ StaleRow(1, ChunkSize + 1) \in DOMAIN eval.out
  /\ FileRow(TreeOf(MaxFiles)[MaxFiles], 1) \in DOMAIN eval.out
  /\ CountOf(eval.out, 1) = MaxFiles + 1

\* The place of a step in analyzeRepository: the loops stay at their place.
StepOrder(pc) ==
  CASE pc = "setAnalyzing" -> 1
    [] pc = "clone" -> 2
    [] pc = "branches" -> 3
    [] pc \in {"commits", "commitLoop"} -> 4
    [] pc \in {"files", "fileChunks"} -> 5
    [] pc = "contributors" -> 6
    [] pc = "languages" -> 7
    [] pc = "final" -> 8
    [] pc = "returned" -> 9
    [] OTHER -> 0

\* C22: a run takes its steps in the order analyzing, clone, branches,
\* commits, files, contributors, languages, completed: every step of a run
\* that does not raise stays at its place or moves to the next one, each
\* table is written at its own place only, and status completed is written
\* from the last place only.
C22_StepsInOrder ==
  [][\A r \in Runs :
       (Active(r) /\ run[r].pc # "load" /\ run'[r] # run[r]) =>
         LET id == run[r].id
             at == StepOrder(run[r].pc)
         IN  /\ run'[r].pc \notin {"catch", "thrown"}
                  => (at > 0 /\ StepOrder(run'[r].pc) \in {at, at + 1})
             /\ (repo'[id].status # repo[id].status /\ repo'[id].status = "analyzing")
                  => at = 1
             /\ (r \in dirs' /\ r \notin dirs) => at = 2
             /\ branch' # branch => at = 3
             /\ (commit' # commit \/ fileChange' # fileChange) => at = 4
             /\ file' # file => at = 5
             /\ contributor' # contributor => at = 6
             /\ language' # language => at = 7
             /\ (repo'[id] # repo[id] /\ repo'[id].status = "completed") => at = 8
    ]_vars

\* A run that went through every step: it returned, and its repository is
\* completed with rows in every table.
C22_Witness ==
  \E r \in Runs :
    LET id == run[r].id
    IN  /\ run[r].pc = "returned"
        /\ repo[id].exists /\ repo[id].status = "completed"
        /\ CountOf(branch, id) > 0 /\ CountOf(commit, id) > 0
        /\ CountOf(fileChange, id) > 0 /\ CountOf(file, id) > 0
        /\ CountOf(contributor, id) > 0 /\ CountOf(language, id) > 0

Untouched(id) ==
  /\ repo'[id] = repo[id]
  /\ RowsOf(branch', id) = RowsOf(branch, id)
  /\ RowsOf(commit', id) = RowsOf(commit, id)
  /\ RowsOf(fileChange', id) = RowsOf(fileChange, id)
  /\ RowsOf(file', id) = RowsOf(file, id)
  /\ RowsOf(contributor', id) = RowsOf(contributor, id)
  /\ RowsOf(language', id) = RowsOf(language, id)

\* C25: a step of a run for repository R changes no Repository row but R's,
\* of which it keeps url and owner, removes no row of any table, and leaves
\* the rows of every other repository as they are; the file changes it
\* inserts belong to commits of R that are persisted.
C25_OnlyOwnRepository ==
  [][\A r \in Runs :
       (Active(r) /\ run'[r] # run[r]) =>
         LET R == run[r].id
         IN  /\ \A id \in Ids \ {R} : Untouched(id)
             /\ repo'[R].exists = repo[R].exists
             /\ repo'[R].url = repo[R].url /\ repo'[R].userId = repo[R].userId
             /\ branch \sqsubseteq branch' /\ commit \sqsubseteq commit'
             /\ fileChange \sqsubseteq fileChange' /\ file \sqsubseteq file'
             /\ contributor \sqsubseteq contributor' /\ language \sqsubseteq language'
             /\ \A x \in BagToSet(fileChange') :
                  x \notin BagToSet(fileChange) =>
                    \E c \in BagToSet(commit') :
                      c.repositoryId = R /\ x.repositoryId = R /\ c.hash = x.hash
    ]_vars

\* Analyses of two repositories interleave: both runs are under way and
\* both repositories have rows.
C25_Witness ==
  \E r, q \in Runs :
    /\ Active(r) /\ Active(q)
    /\ run[r].id # run[q].id
    /\ CountOf(commit, run[r].id) > 0
    /\ CountOf(commit, run[q].id) > 0

\* The file changes git show wrote for a commit, as the rule of C18 reads
\* them: the numbers of each line, 0 and 0 for a binary file.
ChangesWritten(lines) ==
  [i \in DOMAIN lines |->
     [path |-> << lines[i].path >>,
      additions |-> lines[i].add,
      deletions |-> lines[i].del,
      changeType |-> IF lines[i].add > 0 /\ lines[i].del = 0 THEN "added"
                     ELSE IF lines[i].add = 0 /\ lines[i].del > 0 THEN "deleted"
                     ELSE "modified"]]

\* C26: getCommits returns every commit of the log, in order; a commit
\* whose file-change lookup failed has an empty fileChanges list, and every
\* other commit has the file changes git show wrote for it.
C26_LookupFailureIsolated ==
  Evaluated("fileChangeLookups") =>
    /\ Len(eval.out) = Len(eval.in.log)
    /\ \A i \in DOMAIN eval.in.log :
         LET show == eval.in.shows[eval.in.log[i].hash]
         IN  /\ eval.out[i].hash = << eval.in.log[i].hash >>
             /\ eval.out[i].message = eval.in.log[i].subject
             /\ eval.out[i].fileChanges =
                  IF show.failed THEN << >> ELSE ChangesWritten(show.lines)

\* Two commits: the lookup failed for the first and found two files for
\* the second.
C26_Witness ==
  /\ Evaluated("fileChangeLookups")
  /\ Len(eval.in.log) = 2
  /\ eval.in.shows[eval.in.log[1].hash].failed
  /\ Len(eval.out) = 2
  /\ eval.out[1].fileChanges = << >>
  /\ Len(eval.out[2].fileChanges) = 2

\* Run q has written status analyzing.
WroteAnalyzing(q) == StepOrder(run[q].pc) >= 2 \/ run[q].pc = "catch"

\* C27: the write of the handler createRepository attached to run r leaves
\* the status as it is once a later run of the same repository has written
\* analyzing or completed and that status stands.
C27_HandlerOwnRunOnly ==
  [][\A r \in Runs :
       (run[r].pc = "thrown" /\ ~run[r].handled /\ run'[r].handled) =>
         LET id == run[r].id
         IN  (/\ repo[id].exists
              /\ repo[id].status \in {"analyzing", "completed"}
              /\ \E q \in Runs : q > r /\ run[q].id = id /\ WroteAnalyzing(q))
               => repo'[id].status = repo[id].status
    ]_vars

\* The FileChange rows of the file changes the extractor produces for the
\* commit of hash h, and the rows persisted for it.
ExtractedChanges(h, id) ==
  FileChangeRows([hash |-> h, fileChanges |-> GetFileChanges(CommitAt(h))], id)

PersistedChanges(h, id) ==
  [y \in {z \in BagToSet(fileChange) : z.repositoryId = id /\ z.hash = h}
     |-> fileChange[y]]

\* C28: once every run has returned, the later one included, each persisted
\* Commit row of the repository has FileChange rows for exactly the file
\* changes extracted for that commit.
C28_CommitsHaveFileChanges ==
  \A id \in Ids :
    (repo[id].exists /\ \A r \in Runs : run[r].id = id /\ run[r].pc = "returned")
      => \A x \in BagToSet(commit) :
           x.repositoryId = id
             => PersistedChanges(x.hash, id)
                  = CreateAll(EmptyBag, ExtractedChanges(x.hash, id))

\* C29: when a run completes, at most one Branch row of its repository has
\* isDefault = true, and every Branch row named as the Repository row's
\* defaultBranch has isDefault = true.
C29_OneDefaultBranch ==
  [][\A r \in Runs :
       Completes(r) =>
         LET id == run[r].id
             rows == {b \in BagToSet(branch') : b.repositoryId = id}
         IN  /\ \A b, c \in rows : (b.isDefault /\ c.isDefault) => b = c
             /\ \A b \in rows : b.isDefault => branch'[b] = 1
             /\ \A b \in rows : b.name = repo'[id].defaultBranch => b.isDefault
    ]_vars

\* C30: when a step raised and the write of status failed raises too, the
\* Repository row being gone, the run ends raising the error of the step,
\* and the scratch directory of its clone is deleted unless fs.rm fails.
C30_OriginalErrorSurvives ==
  [][\A r \in Runs :
       (run[r].pc = "catch" /\ run'[r] # run[r] /\ ~repo[run[r].id].exists) =>
         /\ run'[r].pc = "thrown"
         /\ run'[r].err = run[r].stepErr
         /\ (run[r].git /\ faults' = faults) => r \notin dirs'
    ]_vars

\* The bytes of the files of a tree that carry a language.
BytesOf(files, name) ==
  SumSeq([i \in DOMAIN files |-> IF files[i].language = name THEN files[i].size ELSE 0])

\* C21: the languages detectLanguages reports are exactly the non-null
\* languages getFileTree assigns to its files, each with the summed sizes of
\* the files carrying it, in descending order of percentage (the order of
\* bytes, all percentages sharing one totalBytes).
C21_LanguagesMatchFileTree ==
  Evaluated("detectLanguages") =>
    LET files == eval.out.files
        languages == eval.out.languages
    IN  /\ {languages[i].name : i \in DOMAIN languages}
             = {files[i].language : i \in DOMAIN files} \ {""}
        /\ \A i \in DOMAIN languages :
             languages[i].bytes = BytesOf(files, languages[i].name)
        /\ \A i, j \in DOMAIN languages :
             i < j => languages[i].bytes >= languages[j].bytes

RECURSIVE PercentageSum(_)
PercentageSum(rows) ==
  IF DOMAIN rows = {} THEN 0
  ELSE LET x == CHOOSE y \in DOMAIN rows : TRUE
       IN  rows[x] * x.percentage + PercentageSum([y \in DOMAIN rows \ {x} |-> rows[y]])

\* C10: after a completed run whose filtered language distribution is not
\* empty, the percentages of the repository's Language rows sum to 100.00.
C10_PercentagesSumTo100 ==
  [][\A r \in Runs :
       (Completes(r) /\ Alone(r)
          /\ TotalBytes(FilteredLanguages(DetectLanguages(run[r].ver))) > 0)
         => PercentageSum(RowsOf(language, run[r].id)) = 10000]_vars

====
